---- MODULE Spec2Model ----
(***************************************************************************)
(* Serialization and deserialization of bit-slices (src/serdes/slice.rs).  *)
(*                                                                         *)
(* A bit-slice is transported as the struct `BitSeq` with the four fields  *)
(* order, head, bits, data.  The encoder is `Serialize for BitSlice`; the  *)
(* decoder is `BitSeqVisitor`, driven by the surrounding format through    *)
(* `visit_seq` (positional) or `visit_map` (keyed), ending in `assemble`,  *)
(* which hands the collected parts to the transform functor of the         *)
(* destination type (`&BitSlice<u8, O>` borrows, `BitVec<T, O>` owns).     *)
(*                                                                         *)
(* One behaviour of the model is one decode attempt.  It starts from a     *)
(* view that is serialized first and whose fields the format then delivers *)
(* faithfully, or from four values the format holds from the start (valid  *)
(* or not), or from input the format draws freely at each step.            *)
(***************************************************************************)
EXTENDS Integers, Sequences, FiniteSets, TLC

\* Longest storage-word sequence the model draws (buffers, `data` values).
MaxWords == 2
\* Width of `usize` on the modelled target, scaled down; the wire's `bits`
\* is wider (u64), so `bits as usize` can truncate.
UsizeBits == 10
\* Most elements a positional input holds.
MaxSeqLen == 5

(***************************************************************************)
(* Options: None is the empty tuple, Some(x) the one-element tuple.        *)
(***************************************************************************)
None == <<>>
Some(x) == <<x>>
IsSome(o) == o # <<>>
Unwrap(o) == o[1]

RECURSIVE Pow2(_)
Pow2(n) == IF n = 0 THEN 1 ELSE 2 * Pow2(n - 1)

\* The storage-word widths T::Mem the model instantiates (bits_of::<T::Mem>()).
Widths == {8, 16}
\* The supported orderings O.
Orders == {"Lsb0", "Msb0"}
\* Storage-word values the buffers are built from (none is a bit palindrome).
WordSamples == {18, 203}

\* any::type_name::<O>()
type_name(o) == IF o = "Lsb0" THEN "bitvec::order::Lsb0" ELSE "bitvec::order::Msb0"

\* super::FIELDS
FIELDS == <<"order", "head", "bits", "data">>

\* usize::MAX, and the longest region a bit-span can describe.
UsizeMax == Pow2(UsizeBits) - 1
RegionMaxBits == UsizeMax \div 8

\* Number of T-wide words that cover h + n bits.
Elts(h, n, w) == (h + n + w - 1) \div w

(***************************************************************************)
(* Bit-slices.  A slice is [order, width, head, len, mem, base]: the       *)
(* region starts `head` bits into word `base` of the buffer `mem` (0-based)*)
(* and is `len` bits long.                                                 *)
(***************************************************************************)
\* O::at: the bit position, counted from the least significant bit, of the
\* idx-th bit of a word.
At(o, w, idx) == IF o = "Lsb0" THEN idx ELSE w - 1 - idx

BitOfWord(word, pos) == (word \div Pow2(pos)) % 2

\* The i-th live bit of a slice; 2 marks a read outside the buffer.
BitOf(s, i) ==
    LET e == s.base + ((s.head + i) \div s.width)
        idx == (s.head + i) % s.width
    IN  IF e + 1 <= Len(s.mem)
        THEN BitOfWord(s.mem[e + 1], At(s.order, s.width, idx))
        ELSE 2

Bits(s) == [i \in 0 .. (s.len - 1) |-> BitOf(s, i)]

\* The region lies inside its buffer.
InBuffer(s) == s.base + Elts(s.head, s.len, s.width) <= Len(s.mem)

(***************************************************************************)
(* Encoder.  The wire form is the record of the four fields together with  *)
(* `names`, the order in which serialize_field emitted them.               *)
(***************************************************************************)
\* Serialize for BitIdx: the index together with the width it counts in.
SerializeBitIdx(w, h) == [width |-> w, index |-> h]

\* BitSlice::domain, serialized: the words the region touches.
Domain(s) == SubSeq(s.mem, s.base + 1, s.base + Elts(s.head, s.len, s.width))

\* `self.len() as u64`
LenAsU64(n) == n

\* The order of the serialize_field calls.
SerializeFieldNames == <<"order", "head", "bits", "data">>

\* Serialize with the head index left at zero.
Serialize_HeadZero(s) ==
    [names |-> SerializeFieldNames,
     order |-> type_name(s.order),
     head  |-> SerializeBitIdx(s.width, 0),
     bits  |-> LenAsU64(s.len),
     data  |-> Domain(s)]

\* Serialize emitting the whole backing buffer as `data`.
Serialize_WholeBuffer(s) ==
    [names |-> SerializeFieldNames,
     order |-> type_name(s.order),
     head  |-> SerializeBitIdx(s.width, s.head),
     bits  |-> LenAsU64(s.len),
     data  |-> s.mem]

\* <BitSlice<T, O> as Serialize>::serialize
Serialize(s) ==
    LET head == s.head
    IN  [names |-> SerializeFieldNames,
         order |-> type_name(s.order),
         head  |-> SerializeBitIdx(s.width, head),
         bits  |-> LenAsU64(s.len),
         data  |-> Domain(s)]

\* The value the wire form carries for a field.
WireField(w, name) ==
    CASE name = "order" -> w.order
      [] name = "head"  -> w.head
      [] name = "bits"  -> w.bits
      [] name = "data"  -> w.data

NoWire == [names |-> <<>>]

(***************************************************************************)
(* Outcomes of a decode attempt.                                           *)
(***************************************************************************)
Pending == [tag |-> "Pending"]
Ok(v) == [tag |-> "Ok", value |-> v]
\* The process panicked: `todo!()` or `unwrap_err()` on an Ok.
Abort(why) == [tag |-> "Abort", why |-> why]
\* serde::de::Error constructors.
missing_field(f) == [tag |-> "Err", kind |-> "missing_field", field |-> f]
duplicate_field(f) == [tag |-> "Err", kind |-> "duplicate_field", field |-> f]
unknown_field(f, expected) ==
    [tag |-> "Err", kind |-> "unknown_field", field |-> f, expected |-> expected]
invalid_length(n, exp) ==
    [tag |-> "Err", kind |-> "invalid_length", index |-> n, expecting |-> exp]
invalid_type(unexp, exp) ==
    [tag |-> "Err", kind |-> "invalid_type", unexpected |-> unexp, expecting |-> exp]
\* An error of the format or of a field's own Deserialize impl, passed on by `?`.
element_error(f) == [tag |-> "Err", kind |-> "element", field |-> f]

\* expecting with the storage width written as a literal `u8`.
expecting_ByteWidth(w, o) == [text |-> "a BitSlice", width |-> 8, order |-> type_name(o)]

\* Visitor::expecting
expecting(w, o) == [text |-> "a BitSlice", width |-> w, order |-> type_name(o)]

(***************************************************************************)
(* The collaborators of the transform functors.                            *)
(***************************************************************************)
\* Deserialize for BitIdx<T::Mem>: the recorded width must be the
\* destination's and the index must lie below it.
DeserializeBitIdx(hv, w) ==
    IF hv.width = w /\ hv.index < hv.width THEN Some(hv.index) ELSE None

\* BitSpan::new(addr, head, bits): the call sites pass no buffer length.
BitSpan_new(w, head, bits) ==
    IF ~(head < w) THEN [tag |-> "Err", error |-> "HeadOutOfRange"]
    ELSE IF bits > RegionMaxBits THEN [tag |-> "Err", error |-> "LengthOverflow"]
    ELSE [tag |-> "Ok", head |-> head, bits |-> bits]

\* BitVec::try_from_vec: a vector of all the words' bits, or the failure to
\* describe that many bits.
TryFromVec(vec, w, o) ==
    IF Len(vec) * w > RegionMaxBits
    THEN [tag |-> "Err"]
    ELSE [tag |-> "Ok",
          value |-> [order |-> o, width |-> w, head |-> 0,
                     len |-> Len(vec) * w, mem |-> vec, base |-> 0]]

\* BitVec::set_head and BitVec::set_len (unsafe setters).
set_head(bv, head) == [bv EXCEPT !.head = head]
set_len(bv, bits) == [bv EXCEPT !.len = bits]

\* BitSpan::into_bitslice_ref over the buffer `data` points at.
into_bitslice_ref(span, data, o) ==
    [order |-> o, width |-> 8, head |-> span.head, len |-> span.bits,
     mem |-> data, base |-> 0]

(***************************************************************************)
(* The transform functors.  Each yields Ok(value), Err(error) or a panic.  *)
(***************************************************************************)
\* <&BitSlice<u8, O> as Deserialize>::deserialize, the closure.
BorrowFunc(data, head, bits, o) ==
    LET span == BitSpan_new(8, head, bits)
    IN  IF span.tag = "Ok"
        THEN [tag |-> "Ok", value |-> into_bitslice_ref(span, data, o)]
        ELSE [tag |-> "Err", error |-> span.error]

\* The owning closure without its set_head call.
OwnFunc_NoSetHead(vec, head, bits, w, o) ==
    LET made == TryFromVec(vec, w, o)
    IN  IF made.tag = "Err"
        THEN [tag |-> "Err", error |-> "LengthOverflow"]
        ELSE [tag |-> "Ok", value |-> set_len(made.value, bits)]

\* <BitVec<T, O> as Deserialize>::deserialize, the closure.
OwnFunc(vec, head, bits, w, o) ==
    LET made == TryFromVec(vec, w, o)
    IN  IF made.tag = "Err"
        THEN LET span == BitSpan_new(w, head, bits)
             IN  IF span.tag = "Ok"
                 THEN [tag |-> "Panic", why |-> "unwrap_err"]
                 ELSE [tag |-> "Err", error |-> span.error]
        ELSE [tag |-> "Ok", value |-> set_len(set_head(made.value, head), bits)]

Func(strat, data, head, bits, w, o) ==
    IF strat = "borrow" THEN BorrowFunc(data, head, bits, o)
    ELSE OwnFunc(data, head, bits, w, o)

(***************************************************************************)
(* BitSeqVisitor.                                                          *)
(***************************************************************************)
\* BitSeqVisitor::new
NewVisitor == [order |-> None, head |-> None, bits |-> None, data |-> None]

\* `bits as usize`
AsUsize(bits) == bits % Pow2(UsizeBits)

\* assemble without its order comparison.
OrderDiffers_Never(order, o) == FALSE

\* The order comparison of assemble.
OrderDiffers(order, o) == order # type_name(o)

\* `.map_err(|_| todo!())` on the functor's result.
MapErrTodo(r) ==
    CASE r.tag = "Ok"    -> Ok(r.value)
      [] r.tag = "Err"   -> Abort("todo")
      [] r.tag = "Panic" -> Abort(r.why)

\* assemble taking `data` first.
TakeSequence_DataFirst == <<"data", "order", "head", "bits">>

\* The slots in the order in which assemble takes them.
TakeSequence == <<"order", "head", "bits", "data">>

\* The takes of assemble from the i-th on: the visitor as they leave it and
\* the slot found empty, if any.
RECURSIVE TakeFrom(_, _)
TakeFrom(v, i) ==
    IF i > Len(TakeSequence) THEN [visitor |-> v, missing |-> None]
    ELSE LET name == TakeSequence[i]
         IN  IF ~IsSome(v[name]) THEN [visitor |-> v, missing |-> Some(name)]
             ELSE TakeFrom([v EXCEPT ![name] = None], i + 1)

\* assemble comparing the order tag before it looks for empty slots.
assemble_TagFirst(v, strat, w, o) ==
    LET t == TakeFrom(v, 1)
    IN  IF IsSome(v.order) /\ OrderDiffers(Unwrap(v.order), o)
        THEN [visitor |-> t.visitor,
              out |-> invalid_type(Unwrap(v.order), expecting(w, o)),
              ran |-> FALSE]
        ELSE IF IsSome(t.missing)
        THEN [visitor |-> t.visitor, out |-> missing_field(Unwrap(t.missing)),
              ran |-> FALSE]
        ELSE [visitor |-> t.visitor,
              out |-> MapErrTodo(Func(strat, Unwrap(v.data), Unwrap(v.head),
                                      AsUsize(Unwrap(v.bits)), w, o)),
              ran |-> TRUE]

\* BitSeqVisitor::assemble: the visitor as the takes leave it, the outcome,
\* and whether the functor ran.
assemble(v, strat, w, o) ==
    LET t == TakeFrom(v, 1)
    IN  IF IsSome(t.missing)
        THEN [visitor |-> t.visitor, out |-> missing_field(Unwrap(t.missing)),
              ran |-> FALSE]
        ELSE IF OrderDiffers(Unwrap(v.order), o)
        THEN [visitor |-> t.visitor,
              out |-> invalid_type(Unwrap(v.order), expecting(w, o)),
              ran |-> FALSE]
        ELSE [visitor |-> t.visitor,
              out |-> MapErrTodo(Func(strat, Unwrap(v.data), Unwrap(v.head),
                                      AsUsize(Unwrap(v.bits)), w, o)),
              ran |-> TRUE]

\* visit_seq with the literal of the `bits` element repeated for `data`.
AbsentIndex_Repeated(name) ==
    CASE name = "order" -> 0
      [] name = "head"  -> 1
      [] name = "bits"  -> 2
      [] name = "data"  -> 2

\* The position visit_seq reports when the element for a slot is absent.
AbsentIndex(name) ==
    CASE name = "order" -> 0
      [] name = "head"  -> 1
      [] name = "bits"  -> 2
      [] name = "data"  -> 3

(***************************************************************************)
(* State of one decode attempt.                                            *)
(***************************************************************************)
VARIABLES
    T,          \* bits_of::<T::Mem>() of the destination
    O,          \* the destination's ordering
    strategy,   \* "borrow" (&BitSlice<u8, O>) or "own" (BitVec<T, O>)
    proto,      \* "seq" (visit_seq) or "map" (visit_map)
    view,       \* Some(slice) that is serialized first, or None
    wire,       \* the serialized form last produced, or NoWire
    input,      \* the four values the format holds, or NoWire when it
                \* draws each answer freely
    seqLen,     \* number of elements a positional input holds
    visitor,    \* the BitSeqVisitor's four slots
    pc,         \* "ser", "visit", "done", "reser"
    result,     \* the outcome of the attempt
    cursor,     \* number of keys and values the format has handed out
    count,      \* per recognized key, how often the format yielded it
    lastKey,    \* the last key the format yielded
    last,       \* the format's last answer: "err", "end", "val" or "key"
    taken,      \* the slots as assemble found them
    assembled,  \* number of runs of assemble
    funcRuns    \* number of runs of the transform functor

vars == <<T, O, strategy, proto, view, wire, input, seqLen, visitor, pc,
          result, cursor, count, lastKey, last, taken, assembled, funcRuns>>

config == <<T, O, strategy, proto, view, seqLen>>

(***************************************************************************)
(* What the format can hand out.                                           *)
(***************************************************************************)
RECURSIVE SeqsUpTo(_, _)
SeqsUpTo(S, n) ==
    IF n = 0 THEN {<<>>}
    ELSE LET shorter == SeqsUpTo(S, n - 1)
         IN  shorter \cup {Append(q, x) : q \in shorter, x \in S}

Buffers == SeqsUpTo(WordSamples, MaxWords)

\* Tags of the supported orderings and one foreign tag.
OrderValues == {type_name(o) : o \in Orders} \cup {"bitvec::order::LocalBits"}
\* Heads recorded for the destination's width (the last one out of range)
\* and one recorded for the other width.
HeadValues(w) ==
    {SerializeBitIdx(w, i) : i \in {0, 1, w - 1, w}}
        \cup {SerializeBitIdx(24 - w, 1)}
\* Bit counts: small ones, one past the longest region, one past usize.
BitsValues(w) ==
    {0, 4, 9, w, w + 1, RegionMaxBits + 1, Pow2(UsizeBits) + 4}
DataValues == Buffers

ValuesOf(name, w) ==
    CASE name = "order" -> OrderValues
      [] name = "head"  -> HeadValues(w)
      [] name = "bits"  -> BitsValues(w)
      [] name = "data"  -> DataValues

\* Four values a format can hold for the four fields.
FixedInputs(w) ==
    [names : {<<"order", "head", "bits", "data">>}, order : OrderValues,
     head : HeadValues(w), bits : BitsValues(w), data : DataValues]

Recognized == {FIELDS[i] : i \in 1 .. Len(FIELDS)}
UnknownKeys == {"unknown", "len"}

\* Slices a caller can hold: in range, inside their buffer.
HeadSamples(w) == {0, 1, w - 1}
LenSamples(w) == {0, 1, 4, 9, w, w + 1}
Views(w, o) ==
    {s \in [order : {o}, width : {w}, head : HeadSamples(w),
            len : LenSamples(w), mem : Buffers \ {<<>>}, base : 0 .. (MaxWords - 1)] :
        /\ s.base < Len(s.mem)
        /\ s.len <= RegionMaxBits
        /\ InBuffer(s)}

(***************************************************************************)
(* Deserialization of one field's value into the type of its slot.         *)
(***************************************************************************)
DeserializeField(name, val, w) ==
    IF name = "head" THEN DeserializeBitIdx(val, w) ELSE Some(val)

\* Borrowing with every storage type.
Strategies_AnyWidth(w) == {"borrow", "own"}

\* The Deserialize impls a destination of width w has: `&BitSlice<u8, O>`
\* borrows, `BitVec<T, O>` owns.
Strategies(w) == IF w = 8 THEN {"borrow", "own"} ELSE {"own"}

Init ==
    /\ T \in Widths
    /\ O \in Orders
    /\ strategy \in Strategies(T)
    /\ proto \in {"seq", "map"}
    /\ view \in {None} \cup {Some(s) : s \in Views(T, O)}
    /\ wire = NoWire
    /\ input \in (IF view = None THEN {NoWire} \cup FixedInputs(T) ELSE {NoWire})
    /\ seqLen \in (IF proto = "map" THEN {0}
                   ELSE IF view = None /\ input = NoWire THEN 0 .. MaxSeqLen
                   ELSE {4})
    /\ visitor = NewVisitor
    /\ pc = IF view = None THEN "visit" ELSE "ser"
    /\ result = Pending
    /\ cursor = 0
    /\ count = [k \in Recognized |-> 0]
    /\ lastKey = ""
    /\ last = ""
    /\ taken = NewVisitor
    /\ assembled = 0
    /\ funcRuns = 0

(***************************************************************************)
(* Serialization of the view (the start of a round trip).                  *)
(***************************************************************************)
SerializeView ==
    /\ pc = "ser"
    /\ wire' = Serialize(Unwrap(view))
    /\ input' = wire'
    /\ pc' = "visit"
    /\ UNCHANGED <<config, visitor, result, cursor, count, lastKey, last,
                   taken, assembled, funcRuns>>

\* The attempt ends with outcome r, assemble not having run.
Fail(r) ==
    /\ result' = r
    /\ pc' = "done"
    /\ UNCHANGED <<taken, assembled, funcRuns>>

\* `self.assemble()` as the end of visit_seq / visit_map, on the visitor v.
RunAssemble(v) ==
    LET a == assemble(v, strategy, T, O)
    IN  /\ visitor' = a.visitor
        /\ result' = a.out
        /\ taken' = v
        /\ assembled' = assembled + 1
        /\ funcRuns' = funcRuns + (IF a.ran THEN 1 ELSE 0)
        /\ pc' = "done"

(***************************************************************************)
(* visit_seq: one step per next_element call; the fourth goes on into      *)
(* assemble.  `inp` is what the format answers.                            *)
(***************************************************************************)
SeqInputs ==
    LET name == FIELDS[cursor + 1]
    IN  IF input # NoWire
        THEN {[kind |-> "val", val |-> WireField(input, input.names[cursor + 1])]}
        ELSE IF cursor < seqLen
        THEN {[kind |-> "err"]}
                 \cup {[kind |-> "val", val |-> x] : x \in ValuesOf(name, T)}
        ELSE {[kind |-> "err"], [kind |-> "end"]}

SeqStep(inp) ==
    LET pos == cursor
        name == FIELDS[pos + 1]
    IN  CASE inp.kind = "err" ->
               /\ Fail(element_error(name))
               /\ UNCHANGED <<visitor, cursor>>
          [] inp.kind = "end" ->
               /\ Fail(invalid_length(AbsentIndex(name), expecting(T, O)))
               /\ UNCHANGED <<visitor, cursor>>
          [] inp.kind = "val" ->
               LET got == DeserializeField(name, inp.val, T)
                   v == [visitor EXCEPT ![name] = Some(Unwrap(got))]
               IN  /\ cursor' = cursor + 1
                   /\ IF ~IsSome(got)
                      THEN Fail(element_error(name)) /\ UNCHANGED visitor
                      ELSE IF pos + 1 < Len(FIELDS)
                      THEN /\ visitor' = v
                           /\ UNCHANGED <<pc, result, taken, assembled, funcRuns>>
                      ELSE RunAssemble(v)

VisitSeq ==
    /\ pc = "visit"
    /\ proto = "seq"
    /\ \E inp \in SeqInputs : SeqStep(inp) /\ last' = inp.kind
    /\ UNCHANGED <<config, wire, input, count, lastKey>>

(***************************************************************************)
(* visit_map: one step per turn of the loop, a next_key call and what the  *)
(* matched arm does.  `k` is the format's answer to next_key, `val` the    *)
(* value that follows, `drained` whether the format moved past the value   *)
(* when asked to read it as `()`.                                          *)
(***************************************************************************)
KeyInputs ==
    IF input # NoWire
    THEN LET left == {n \in Recognized : count[n] = 0}
         IN  IF left = {} THEN {[kind |-> "end"]}
             ELSE {[kind |-> "key", key |-> n] : n \in left}
    ELSE {[kind |-> "err"], [kind |-> "end"]}
             \cup {[kind |-> "key", key |-> n] : n \in Recognized \cup UnknownKeys}

ValueInputs(name) ==
    IF name \notin Recognized THEN {[kind |-> "val"]}
    ELSE IF input # NoWire THEN {[kind |-> "val", val |-> WireField(input, name)]}
    ELSE {[kind |-> "err"]} \cup {[kind |-> "val", val |-> x] : x \in ValuesOf(name, T)}

\* The arms of `head` and `bits` writing each other's slot.
MapField_SwappedSlots(name, inp) ==
    LET slot == CASE name = "head" -> "bits"
                  [] name = "bits" -> "head"
                  [] OTHER -> name
    IN  /\ last' = inp.kind
        /\ IF inp.kind = "err"
           THEN /\ Fail(element_error(name))
                /\ cursor' = cursor + 1
                /\ UNCHANGED visitor
           ELSE
             LET got == DeserializeField(name, inp.val, T)
             IN  /\ cursor' = cursor + 2
                 /\ IF ~IsSome(got)
                    THEN Fail(element_error(name)) /\ UNCHANGED visitor
                    ELSE /\ visitor' = [visitor EXCEPT ![slot] = Some(Unwrap(got))]
                         /\ IF IsSome(visitor[slot])
                            THEN Fail(duplicate_field(name))
                            ELSE UNCHANGED <<pc, result, taken, assembled, funcRuns>>

\* A recognized key's arm: `self.<name>.replace(map.next_value()?)`, then
\* the duplicate test on what replace returned.
MapField(name, inp) ==
    /\ last' = inp.kind
    /\ IF inp.kind = "err"
       THEN /\ Fail(element_error(name))
            /\ cursor' = cursor + 1
            /\ UNCHANGED visitor
       ELSE
         LET got == DeserializeField(name, inp.val, T)
         IN  /\ cursor' = cursor + 2
             /\ IF ~IsSome(got)
                THEN Fail(element_error(name)) /\ UNCHANGED visitor
                ELSE /\ visitor' = [visitor EXCEPT ![name] = Some(Unwrap(got))]
                     /\ IF IsSome(visitor[name])
                        THEN Fail(duplicate_field(name))
                        ELSE UNCHANGED <<pc, result, taken, assembled, funcRuns>>

\* The catch-all arm: `let _ = map.next_value::<()>()`, then unknown_field.
MapUnknown(name, drained) ==
    /\ last' = "key"
    /\ cursor' = cursor + 1 + (IF drained THEN 1 ELSE 0)
    /\ Fail(unknown_field(name, FIELDS))
    /\ UNCHANGED visitor

MapStep(k) ==
    CASE k.kind = "err" ->
           /\ Fail(element_error("key"))
           /\ last' = "err"
           /\ UNCHANGED <<visitor, cursor, count, lastKey>>
      [] k.kind = "end" ->
           /\ RunAssemble(visitor)
           /\ last' = "end"
           /\ UNCHANGED <<cursor, count, lastKey>>
      [] k.kind = "key" ->
           /\ lastKey' = k.key
           /\ IF k.key \in Recognized
              THEN /\ count' = [count EXCEPT ![k.key] = @ + 1]
                   /\ \E inp \in ValueInputs(k.key) : MapField(k.key, inp)
              ELSE /\ UNCHANGED count
                   /\ \E drained \in BOOLEAN : MapUnknown(k.key, drained)

VisitMap ==
    /\ pc = "visit"
    /\ proto = "map"
    /\ \E k \in KeyInputs : MapStep(k)
    /\ UNCHANGED <<config, wire, input>>

(***************************************************************************)
(* Serialization of the decoded value.  Serializing a value whose region   *)
(* leaves its buffer reads memory the value does not own; the model stops  *)
(* before that.                                                            *)
(***************************************************************************)
Reserialize ==
    /\ pc = "done"
    /\ result.tag = "Ok"
    /\ InBuffer(result.value)
    /\ wire' = Serialize(result.value)
    /\ pc' = "reser"
    /\ UNCHANGED <<config, input, visitor, result, cursor, count, lastKey,
                   last, taken, assembled, funcRuns>>

Next ==
    \/ SerializeView
    \/ VisitSeq
    \/ VisitMap
    \/ Reserialize

Spec == Init /\ [][Next]_vars

(***************************************************************************)
(* Properties.                                                             *)
(***************************************************************************)
\* assemble ran and found all four slots filled.
AllTaken ==
    /\ assembled = 1
    /\ \A n \in Recognized : IsSome(taken[n])

\* First slot of v, in the order order, head, bits, data, that is empty.
FirstEmpty(v) ==
    LET i == CHOOSE i \in 1 .. 4 :
                 /\ ~IsSome(v[FIELDS[i]])
                 /\ \A j \in 1 .. (i - 1) : IsSome(v[FIELDS[j]])
    IN  <<"order", "head", "bits", "data">>[i]

\* Two slices are observably equal.
SameSlice(a, b) ==
    /\ a.order = b.order
    /\ a.width = b.width
    /\ a.head = b.head
    /\ a.len = b.len
    /\ Bits(a) = Bits(b)

\* C1: Round-trip. Once the decode of a serialized valid view has ended
\* (owning decode at every width, borrowing decode at width 8, either
\* protocol), it has succeeded with a value that has the view's ordering,
\* head, bit count and bit contents.
C1_RoundTrip ==
    (IsSome(view) /\ pc \in {"done", "reser"}) =>
        /\ result.tag = "Ok"
        /\ SameSlice(result.value, Unwrap(view))

\* A round trip of a view that starts inside its buffer, off a word
\* boundary, and spans two words.
C1_Witness ==
    /\ IsSome(view)
    /\ pc = "done"
    /\ result.tag = "Ok"
    /\ Unwrap(view).head = 1
    /\ Unwrap(view).len = 9
    /\ Unwrap(view).mem = <<203, 18>>
    /\ SameSlice(result.value, Unwrap(view))

\* C2: Decoding never aborts. No decode attempt ends in a panic: a failure
\* of the span validation reaches the caller as an error value.
C2_NeverAborts == result.tag # "Abort"

\* C3: Capacity enforcement. When all four fields were collected, the order
\* tag matches and ceil((h + n) / w) exceeds the length of data, the decode
\* fails with an insufficient-buffer error; and no decode succeeds with a
\* region that leaves data.
C3_CapacityEnforced ==
    /\ (AllTaken /\ ~OrderDiffers(Unwrap(taken.order), O)
          /\ Elts(Unwrap(taken.head), Unwrap(taken.bits), T)
                 > Len(Unwrap(taken.data)))
         => (result.tag = "Err" /\ result.kind = "insufficient_buffer")
    /\ result.tag = "Ok" => InBuffer(result.value)

\* C4: Order-tag enforcement. For distinct supported orderings P and Q, a
\* decode into Q of four fields whose order is the tag of P ends in the
\* order-mismatch error, whatever head, bits and data are; and an attempt
\* that has read the tag of P never yields a value.
C4_OrderTagEnforced ==
    \A P \in Orders \ {O} :
        /\ (AllTaken /\ Unwrap(taken.order) = type_name(P))
             => result = invalid_type(type_name(P), expecting(T, O))
        /\ (visitor.order = Some(type_name(P)) \/ taken.order = Some(type_name(P)))
             => result.tag # "Ok"

\* An order mismatch reported although bits exceeds every region and data
\* is empty.
C4_Witness ==
    /\ AllTaken
    /\ Unwrap(taken.order) \in {type_name(P) : P \in Orders \ {O}}
    /\ Unwrap(taken.bits) > RegionMaxBits
    /\ Unwrap(taken.data) = <<>>
    /\ result.tag = "Err"
    /\ result.kind = "invalid_type"

\* C5: Duplicate-field detection. In the keyed protocol, once a recognized
\* key has come a second time the attempt has failed with the
\* duplicate-field error naming that key.
C5_DuplicateDetected ==
    \A k \in Recognized :
        (proto = "map" /\ count[k] = 2) => result = duplicate_field(k)

\* C6: Unknown-field detection. In the keyed protocol a key outside the four
\* fields ends the attempt with the unknown-field error naming the key and
\* listing the four fields, and the input is then past that key's value.
C6_UnknownDrained ==
    (proto = "map" /\ lastKey \in UnknownKeys) =>
        /\ result = unknown_field(lastKey, <<"order", "head", "bits", "data">>)
        /\ cursor = 2 * (1 + count["order"] + count["head"] + count["bits"]
                           + count["data"])

\* C7: Missing-field detection. When keyed input ends with a slot still
\* empty, the decode fails with the missing-field error naming the first
\* empty slot in the order order, head, bits, data.
C7_MissingField ==
    (proto = "map" /\ last = "end" /\ \E n \in Recognized : ~IsSome(taken[n]))
        => result = missing_field(FirstEmpty(taken))

\* Keyed input that ended with only `head` absent, `data` having come first.
C7_Witness ==
    /\ proto = "map"
    /\ last = "end"
    /\ lastKey = "order"
    /\ ~IsSome(taken.head)
    /\ IsSome(taken.order) /\ IsSome(taken.bits) /\ IsSome(taken.data)
    /\ result = missing_field("head")

\* C8: Positional short input. When positional input ends after k < 4
\* values, those values fill the first k slots in the order order, head,
\* bits, data and the decode fails with the invalid-length error for
\* position k.
C8_PositionalShort ==
    (proto = "seq" /\ last = "end") =>
        /\ cursor < 4
        /\ result = invalid_length(cursor, expecting(T, O))
        /\ \A i \in 1 .. 4 :
               IsSome(visitor[<<"order", "head", "bits", "data">>[i]]) <=> i <= cursor

\* Positional input of three elements: position 3 (data) is reported.
C8_Witness ==
    /\ proto = "seq"
    /\ last = "end"
    /\ cursor = 3
    /\ result.kind = "invalid_length"
    /\ result.index = 3
    /\ ~IsSome(visitor.data)

\* The wire form w is the encoding of the valid slice s.
EncodingOf(w, s) ==
    /\ w.names = <<"order", "head", "bits", "data">>
    /\ w.order = type_name(s.order)
    /\ w.head = [width |-> s.width, index |-> s.head]
    /\ w.head.index < w.head.width
    /\ w.bits = s.len
    /\ Len(w.data) = (s.head + s.len + s.width - 1) \div s.width
    /\ \A i \in 1 .. Len(w.data) : w.data[i] = s.mem[s.base + i]

\* C9: Encoder output shape. The encoding of a valid view of width w, head
\* h and n bits has the four fields order, head, bits, data in that
\* order: the ordering's tag, {width: w, index: h} with index < width, n,
\* and exactly the ceil((h + n) / w) words the region spans.
C9_EncoderShape ==
    /\ (IsSome(view) /\ pc \in {"visit", "done"}) => EncodingOf(wire, Unwrap(view))
    /\ pc = "reser" => EncodingOf(wire, result.value)

\* The encoding of a view that starts at the second word of its buffer.
C9_Witness ==
    /\ IsSome(view)
    /\ pc = "visit"
    /\ Unwrap(view).base = 1
    /\ Unwrap(view).head = 1
    /\ Unwrap(view).len = 4
    /\ wire.data = <<18>>
    /\ Unwrap(view).mem = <<203, 18>>

\* The wire value assemble collected is exact: the tag matches and data has
\* just the words head and bits call for.
ExactWire ==
    /\ AllTaken
    /\ ~IsSome(view)
    /\ Unwrap(taken.order) = type_name(O)
    /\ Unwrap(taken.head) < T
    /\ Len(Unwrap(taken.data)) = Elts(Unwrap(taken.head), Unwrap(taken.bits), T)

\* C10: Re-encode identity. The decode of an exact wire value succeeds, and
\* serializing the decoded value gives the same four fields back.
C10_ReencodeIdentity ==
    ExactWire =>
        /\ result.tag = "Ok"
        /\ pc = "reser" =>
               wire = [names |-> <<"order", "head", "bits", "data">>,
                       order |-> Unwrap(taken.order),
                       head  |-> [width |-> T, index |-> Unwrap(taken.head)],
                       bits  |-> Unwrap(taken.bits),
                       data  |-> Unwrap(taken.data)]

\* Width 8, least-significant-first, head 1, bits 4, data [0b00010010],
\* decoded by borrowing and serialized again.
C10_Witness ==
    /\ ExactWire
    /\ pc = "reser"
    /\ T = 8 /\ O = "Lsb0" /\ strategy = "borrow"
    /\ Unwrap(taken.head) = 1
    /\ Unwrap(taken.bits) = 4
    /\ Unwrap(taken.data) = <<18>>
    /\ wire.data = <<18>>
    /\ Bits(result.value) = [i \in 0 .. 3 |-> IF i \in {0, 3} THEN 1 ELSE 0]

\* C11: Order-mismatch error content. Whenever assembly finds all four
\* slots filled and an order tag other than the expected one, the returned
\* error is an invalid-type error that carries the very tag read from the
\* input, and its expecting description names the destination's word width
\* in bits and the expected ordering policy's type name; no other step
\* produces an invalid-type error.
C11_MismatchErrorContent ==
    /\ (AllTaken /\ Unwrap(taken.order) # type_name(O))
         => /\ result.tag = "Err"
            /\ result.kind = "invalid_type"
            /\ result.unexpected = Unwrap(taken.order)
            /\ result.expecting.width = T
            /\ result.expecting.order = type_name(O)
    /\ (result.tag = "Err" /\ result.kind = "invalid_type")
         => (AllTaken /\ Unwrap(taken.order) # type_name(O))

\* A 16-bit Msb0 destination rejects the tag of a policy it does not know.
C11_Witness ==
    /\ T = 16
    /\ O = "Msb0"
    /\ AllTaken
    /\ taken.order = Some("bitvec::order::LocalBits")
    /\ result.tag = "Err"
    /\ result.kind = "invalid_type"
    /\ result.unexpected = "bitvec::order::LocalBits"
    /\ result.expecting.width = 16

\* C12: Borrow legality. The borrowing reconstruction is used only with an
\* 8-bit destination; with every other width a value can come only from
\* the owning reconstruction, and a value the borrowing reconstruction
\* returns is a view over 8-bit words.
C12_BorrowOnlyBytes ==
    /\ strategy = "borrow" => T = 8
    /\ (result.tag = "Ok" /\ T # 8) => strategy = "own"
    /\ (result.tag = "Ok" /\ strategy = "borrow") => result.value.width = 8

\* A 16-bit destination decoded a non-empty value, by the owning
\* reconstruction.
C12_Witness ==
    /\ T = 16
    /\ strategy = "own"
    /\ funcRuns = 1
    /\ result.tag = "Ok"
    /\ result.value.width = 16
    /\ result.value.len > 0

\* C13: Slot monotonicity. No step of either protocol changes a slot that
\* is already filled: it neither writes it again (the step that meets a
\* duplicate key included) nor empties it.
C13_SlotsWrittenOnce ==
    [][\A n \in Recognized : IsSome(visitor[n]) => visitor'[n] = visitor[n]]_vars

\* C14: Bit-count range. When the decoded bit count exceeds the longest
\* region the destination can describe, a decode whose four fields were
\* collected under the expected order tag ends with an error, and a decode
\* that succeeds returns exactly the bit count that was read: the count is
\* never cut down to a smaller one.
C14_BitsRangeChecked ==
    /\ (AllTaken /\ Unwrap(taken.order) = type_name(O)
          /\ Unwrap(taken.bits) > RegionMaxBits)
         => result.tag = "Err"
    /\ (AllTaken /\ result.tag = "Ok")
         => result.value.len = Unwrap(taken.bits)

\* C15: Validated results only. Every value a decode returns satisfies the
\* descriptor invariants together: its head lies below the word width, its
\* length is within the longest describable region, and its backing buffer
\* holds every word the head and length reach.
C15_ResultsValidated ==
    result.tag = "Ok"
        => /\ result.value.head < result.value.width
           /\ result.value.len <= RegionMaxBits
           /\ Len(result.value.mem) >=
                  Elts(result.value.head, result.value.len, result.value.width)

\* C16: Assembly check order. Assembly looks for empty slots first, then
\* compares the order tag, then runs the reconstruction, and stops at the
\* first failure: with a slot empty the outcome is the missing-field error
\* even when the order slot holds a wrong tag; with all slots filled and a
\* wrong tag the outcome is the order-mismatch error whatever head, bits
\* and data hold; the reconstruction function runs at most once, only with
\* all four slots filled and the expected tag, and only then can the
\* attempt succeed or abort.
C16_CheckOrder ==
    /\ (assembled = 1 /\ \E n \in Recognized : ~IsSome(taken[n]))
         => /\ result.tag = "Err"
            /\ result.kind = "missing_field"
            /\ funcRuns = 0
    /\ (AllTaken /\ Unwrap(taken.order) # type_name(O))
         => /\ result.tag = "Err"
            /\ result.kind = "invalid_type"
            /\ funcRuns = 0
    /\ funcRuns <= 1
    /\ funcRuns = 1 => (AllTaken /\ Unwrap(taken.order) = type_name(O))
    /\ result.tag \in {"Ok", "Abort"} => funcRuns = 1

\* The order slot holds a wrong tag and a later slot is empty: the outcome
\* is the missing-field error.
C16_Witness ==
    /\ assembled = 1
    /\ IsSome(taken.order)
    /\ Unwrap(taken.order) # type_name(O)
    /\ \E n \in Recognized : ~IsSome(taken[n])
    /\ result.tag = "Err"
    /\ result.kind = "missing_field"
    /\ funcRuns = 0

\* The outcome of the positional protocol fed the four values of inp in the
\* order order, head, bits, data.
PositionalOutcome(inp) ==
    LET got == [n \in Recognized |-> DeserializeField(n, inp[n], T)]
        bad == {i \in 1 .. 4 : ~IsSome(got[FIELDS[i]])}
    IN  IF bad # {}
        THEN element_error(FIELDS[CHOOSE i \in bad : \A j \in bad : i <= j])
        ELSE assemble(got, strategy, T, O).out

\* C17: Protocol equivalence. When the format holds four values (order,
\* head, bits, data), a finished attempt has the outcome of the positional
\* protocol fed these values in order, whether the attempt itself was
\* positional or keyed and, if keyed, in whichever of the 24 orders the
\* four pairs arrived: the same value or the same error.
C17_ProtocolsAgree ==
    (input # NoWire /\ pc \in {"done", "reser"})
        => result = PositionalOutcome(input)

\* A keyed attempt over four values not produced by the encoder, whose
\* `order` pair arrived last, decoded a non-empty value.
C17_Witness ==
    /\ proto = "map"
    /\ view = None
    /\ input # NoWire
    /\ lastKey = "order"
    /\ AllTaken
    /\ result.tag = "Ok"
    /\ result.value.len > 0
    /\ result = PositionalOutcome(input)

\* C18: Single assembly after exhaustion. An attempt runs assembly at most
\* once, and only once the input is exhausted: in the keyed protocol after
\* the key stream reported its end, in the positional protocol after four
\* values were read from an input that holds no further value; and once an
\* attempt has an error, no step consumes input or runs assembly.
C18_AssemblyAfterExhaustion ==
    /\ [](/\ assembled <= 1
          /\ (assembled = 1 /\ proto = "map") => last = "end"
          /\ (assembled = 1 /\ proto = "seq" /\ cursor = 4) => seqLen = 4)
    /\ [][result.tag = "Err" => (cursor' = cursor /\ assembled' = assembled)]_vars

\* C19: Keyed error precedence. In the keyed protocol a key that arrives a
\* second time, or a key that is not recognized, ends the attempt at that
\* pair with the duplicate-field or unknown-field error naming it, and
\* assembly, with its missing-field, order-tag and span checks, never runs:
\* whatever tag the order slot holds and however many slots are still empty.
C19_KeyedErrorPrecedence ==
    /\ (proto = "map" /\ \E n \in Recognized : count[n] >= 2)
         => /\ result = duplicate_field(lastKey)
            /\ assembled = 0
    /\ (proto = "map" /\ lastKey \notin Recognized \cup {""})
         => /\ result = unknown_field(lastKey, FIELDS)
            /\ assembled = 0

====
